---- MODULE Spec2Model ----
(***************************************************************************)
(* A model of pynats' Connection (src/pynats/connection.py): the           *)
(* subscription registry, the frames it sends, and the blocking receive    *)
(* loop reading the broker's byte stream line by line.                     *)
(*                                                                         *)
(* Byte strings are sequences of one-character strings, so that readline,  *)
(* strip, split and %d formatting are computed as Python computes them.    *)
(***************************************************************************)
EXTENDS Integers, Sequences, FiniteSets, TLC

\* ---------------------------------------------------------------- bounds
MaxSid == 2       \* subscribe is called while _next_sid <= MaxSid
MaxCalls == 2     \* subscribe calls (failed ones included) per run
MaxFrames == 3    \* frames the broker sends on one transport
MaxPubs == 1      \* published messages the broker holds before routing them
MaxClock == 2     \* largest value time.time() returns
MaxReconnects == 1  \* reconnect() calls per run
MaxPings == 1     \* PING frames of the caller the broker holds unanswered
MaxConnects == 1  \* connect() calls per run

\* ------------------------------------------------------- byte strings
CRLF == <<"\r", "\n">>
SP == <<" ">>
Whitespace == {" ", "\t", "\n", "\r"}
Digits == {"0", "1", "2", "3", "4", "5", "6", "7", "8", "9"}

DigitChar(n) ==
    CASE n = 0 -> "0" [] n = 1 -> "1" [] n = 2 -> "2" [] n = 3 -> "3"
      [] n = 4 -> "4" [] n = 5 -> "5" [] n = 6 -> "6" [] n = 7 -> "7"
      [] n = 8 -> "8" [] OTHER -> "9"

DigitVal(c) ==
    CASE c = "0" -> 0 [] c = "1" -> 1 [] c = "2" -> 2 [] c = "3" -> 3
      [] c = "4" -> 4 [] c = "5" -> 5 [] c = "6" -> 6 [] c = "7" -> 7
      [] c = "8" -> 8 [] OTHER -> 9

\* '%d' % n, for n >= 0
RECURSIVE FormatInt(_)
FormatInt(n) ==
    IF n < 10 THEN <<DigitChar(n)>>
    ELSE FormatInt(n \div 10) \o <<DigitChar(n % 10)>>

\* int(s), for s a non-empty string of digits
RECURSIVE ParseInt(_)
ParseInt(s) ==
    IF Len(s) = 1 THEN DigitVal(s[1])
    ELSE 10 * ParseInt(SubSeq(s, 1, Len(s) - 1)) + DigitVal(s[Len(s)])

IsNumber(s) == Len(s) > 0 /\ \A i \in 1..Len(s) : s[i] \in Digits

RECURSIVE LStrip(_)
LStrip(s) ==
    IF s # <<>> /\ Head(s) \in Whitespace THEN LStrip(Tail(s)) ELSE s

RECURSIVE RStrip(_)
RStrip(s) ==
    IF s # <<>> /\ s[Len(s)] \in Whitespace
    THEN RStrip(SubSeq(s, 1, Len(s) - 1)) ELSE s

\* str.strip()
Strip(s) == RStrip(LStrip(s))

\* index of the first occurrence of character c in s, 0 when there is none
IndexOf(s, c) ==
    IF \E i \in 1..Len(s) : s[i] = c
    THEN CHOOSE i \in 1..Len(s) : s[i] = c /\ \A j \in 1..(i - 1) : s[j] # c
    ELSE 0

\* file.readline(): the bytes up to and including the first "\n" of the
\* buffer (all of it when it holds none, the end-of-file case)
ReadLine(buf) ==
    IF IndexOf(buf, "\n") = 0 THEN buf ELSE SubSeq(buf, 1, IndexOf(buf, "\n"))

Drop(buf, n) == SubSeq(buf, n + 1, Len(buf))

\* s.split(' ', 1)[0]
FirstWord(s) ==
    IF IndexOf(s, " ") = 0 THEN s ELSE SubSeq(s, 1, IndexOf(s, " ") - 1)

\* the fields of s separated by runs of whitespace
RECURSIVE Fields(_)
Fields(s) ==
    LET t == LStrip(s)
        ends == {i \in 1..Len(t) : t[i] \in Whitespace}
        n == IF ends = {} THEN Len(t)
             ELSE (CHOOSE i \in ends : \A j \in ends : i <= j) - 1
    IN  IF t = <<>> THEN <<>>
        ELSE <<SubSeq(t, 1, n)>> \o Fields(Drop(t, n))

\* --------------------------------------------------------- wire frames
VerbMSG == <<"M", "S", "G">>
VerbPING == <<"P", "I", "N", "G">>
VerbPONG == <<"P", "O", "N", "G">>
VerbOK == <<"+", "O", "K">>
VerbINFO == <<"I", "N", "F", "O">>
VerbPUB == <<"P", "U", "B">>
VerbSUB == <<"S", "U", "B">>
VerbUNSUB == <<"U", "N", "S", "U", "B">>
VerbCONNECT == <<"C", "O", "N", "N", "E", "C", "T">>

\* reply=None, and a regex group that did not take part in the match
None == <<"None">>

\* the command table of pynats.commands: verb -> command (None when absent)
commands_get(verb) ==
    CASE verb = VerbMSG -> "MSG"
      [] verb = VerbPING -> "PING"
      [] verb = VerbPONG -> "PONG"
      [] verb = VerbOK -> "OK"
      [] verb = VerbINFO -> "INFO"
      [] OTHER -> "None"

NoMatch == [matched |-> FALSE, subject |-> None, sid |-> None,
            reply |-> None, size |-> None]

\* command.match(line): the line-matching rule of each command and the
\* fields it extracts.  A line matches only with its CRLF terminator.
Match(command, line) ==
    LET n == Len(line)
        terminated == n >= 2 /\ SubSeq(line, n - 1, n) = CRLF
        b == IF terminated THEN SubSeq(line, 1, n - 2) ELSE <<>>
        f == Fields(b)
        plain == [NoMatch EXCEPT !.matched = TRUE]
    IN  IF ~terminated \/ b = <<>> \/ b[1] \in Whitespace THEN NoMatch
        ELSE CASE command = "PING" -> IF b = VerbPING THEN plain ELSE NoMatch
               [] command = "PONG" -> IF b = VerbPONG THEN plain ELSE NoMatch
               [] command = "OK" -> IF f = <<VerbOK>> THEN plain ELSE NoMatch
               [] command = "INFO" ->
                    IF Len(f) >= 2 /\ f[1] = VerbINFO THEN plain ELSE NoMatch
               [] command = "MSG" ->
                    IF /\ Len(f) \in {4, 5}
                       /\ f[1] = VerbMSG
                       /\ b[Len(b)] \notin Whitespace
                       /\ IsNumber(f[Len(f)])
                    THEN [matched |-> TRUE, subject |-> f[2], sid |-> f[3],
                          reply |-> IF Len(f) = 5 THEN f[4] ELSE None,
                          size |-> f[Len(f)]]
                    ELSE NoMatch
               [] OTHER -> NoMatch

\* MSG <subject> <sid> [<reply>] <size>\r\n<payload>\r\n, as the broker frames it
MsgFrame(subject, sid, reply, size, payload) ==
    VerbMSG \o SP \o subject \o SP \o sid
      \o (IF reply = None THEN <<>> ELSE SP \o reply)
      \o SP \o size \o CRLF \o payload \o CRLF

PingFrame == VerbPING \o CRLF
PongFrame == VerbPONG \o CRLF
OkFrame == VerbOK \o CRLF
InfoFrame == VerbINFO \o SP \o <<"{", "}">> \o CRLF
\* a verb the command table does not hold
ErrFrame == <<"-", "E", "R", "R">> \o CRLF
\* a MSG header whose size is not a number, followed by its payload
BadMsgFrame == MsgFrame(<<"f">>, <<"1">>, None, <<"x">>, <<"a">>)

\* an INFO line without the document the INFO rule requires
BadInfoFrame == VerbINFO \o CRLF

\* what the broker may send unasked once the handshake is done
KeepaliveFrames == {PingFrame, OkFrame}
\* frames that break the protocol where the client reads them
StrayFrames == {PongFrame, ErrFrame, CRLF, BadMsgFrame}

Subjects == {<<"f">>}
Replies == {None}
Payloads == {<<"a">>, <<" ", "a">>, <<"a", "\n", "b">>}
\* the callbacks the caller subscribes with
Callbacks == {"cb"}
\* what a call of a callback may return
CallbackResults == {"True", "False", "None"}

\* ---------------------------------------------------------------- state
VARIABLES
    socket,         \* _socket: "none" (None), "fresh" (built, connect failed), "conn"
    socket_file,    \* _socket_file: "none" (None) or "open"
    alive,          \* the link behind _socket_file has not failed
    subscriptions,  \* _subscriptions: sid -> Subscription
    next_sid,       \* _next_sid
    stream,         \* the bytes the broker sent that _socket_file has not read
    pc,             \* where the caller is: "idle", "connect" (in _recv(INFO)), "wait"
    count,          \* wait's count argument
    duration,       \* wait's duration argument, 0 for None
    start,          \* wait's local start
    total,          \* wait's local total
    now,            \* the last value time.time() returned
    broker_subs,    \* the sids the broker holds a SUB for on this transport
    pubs,           \* the PUB frames the broker received and has not routed
    pings,          \* the PING frames the broker received and has not answered
    nframes,        \* frames the broker sent on this transport
    stray,          \* the broker sent a frame that breaks the protocol
    nconnects,      \* connect() calls made
    assigned,       \* the sids subscribe assigned, in call order
    inflight,       \* the published payload of each MSG frame in stream, in order
    sent,           \* the data of each sendall of the current operation
    delivered,      \* the Messages handed to callbacks by the current wait,
                    \* each with the payload that was published
    ends,           \* the lengths of stream at which a frame of the broker starts
    ev              \* the last step of the caller: operation, error raised, frame read

vars == <<socket, socket_file, alive, subscriptions, next_sid, stream, pc, count,
          duration, start, total, now, broker_subs, pubs, pings, nframes, stray,
          nconnects, assigned, inflight, sent, delivered, ends, ev>>

conn_vars == <<socket, socket_file, nconnects>>
reg_vars == <<subscriptions, next_sid, assigned>>
wait_vars == <<count, duration, start, total, delivered>>
in_vars == <<stream, ends, inflight, nframes, stray>>
link_vars == <<alive, stream, ends, inflight, nframes, stray, pubs, broker_subs,
               pings>>

Event(op, err, frame, why) == [op |-> op, err |-> err, frame |-> frame, why |-> why]

Init ==
    /\ socket = "none"
    /\ socket_file = "none"
    /\ alive = FALSE
    /\ subscriptions = <<>>
    /\ next_sid = 1
    /\ stream = <<>>
    /\ pc = "idle"
    /\ count = 0
    /\ duration = 0
    /\ start = 0
    /\ total = 0
    /\ now = 1
    /\ broker_subs = {}
    /\ pubs = <<>>
    /\ pings = 0
    /\ nframes = 0
    /\ stray = FALSE
    /\ nconnects = 0
    /\ assigned = <<>>
    /\ inflight = <<>>
    /\ sent = <<>>
    /\ delivered = <<>>
    /\ ends = {0}
    /\ ev = Event("init", "none", "-", "-")

\* the locals of wait and the log of what it delivered end with the call
\* that follows it
NoWait ==
    /\ count' = 0
    /\ duration' = 0
    /\ start' = 0
    /\ total' = 0
    /\ delivered' = <<>>

\* ------------------------------------------------------------ transport
\* _send applied to each command of cmds in turn, on socket sock whose link
\* state is up: how many sendall calls returned, the error that ended the
\* operation, and the link state afterwards.  A link that is up may fail at
\* any sendall.
SendAllOn(sock, up, cmds) ==
    IF sock = "none"
    THEN {[n |-> 0, err |-> "AttributeError", alive |-> up]}
    ELSE IF sock = "fresh" \/ ~up
    THEN {[n |-> 0, err |-> "SocketError", alive |-> up]}
    ELSE {[n |-> Len(cmds), err |-> "none", alive |-> TRUE]}
           \cup {[n |-> k, err |-> "SocketError", alive |-> FALSE] :
                   k \in 0..(Len(cmds) - 1)}

SendAll(cmds) == SendAllOn(socket, alive, cmds)

\* the data handed to sendall by the first n commands
Wire(cmds, n) == [i \in 1..n |-> cmds[i] \o CRLF]

\* the link fails: what the broker sent and was not read is lost with it, and
\* so is what the broker held for this transport
LinkLost ==
    /\ alive' = FALSE
    /\ stream' = <<>>
    /\ ends' = {0}
    /\ inflight' = <<>>
    /\ nframes' = 0
    /\ stray' = FALSE
    /\ pubs' = <<>>
    /\ broker_subs' = {}
    /\ pings' = 0

\* the link after a _send that raised: lost if it failed at this sendall
SendFailed(o) == IF o.alive # alive THEN LinkLost ELSE UNCHANGED link_vars

\* _get_command
GetCommand(line) == commands_get(FirstWord(Strip(line)))

\* _recv testing `command is None` in place of
\* `command not in expected_commands`
RecvKnownCommand(buf, expected_commands) ==
    LET line == ReadLine(buf)
        command == GetCommand(line)
        result == Match(command, line)
        rest == Drop(buf, Len(line))
    IN  IF command = "None"
        THEN [err |-> "UnexpectedResponse", command |-> command,
              result |-> NoMatch, rest |-> rest]
        ELSE IF ~result.matched
        THEN [err |-> "UnknownResponse", command |-> command,
              result |-> NoMatch, rest |-> rest]
        ELSE [err |-> "none", command |-> command, result |-> result, rest |-> rest]

\* _recv without its `command not in expected_commands` test
RecvAnyCommand(buf, expected_commands) ==
    LET line == ReadLine(buf)
        command == GetCommand(line)
        result == Match(command, line)
        rest == Drop(buf, Len(line))
    IN  IF ~result.matched
        THEN [err |-> "UnknownResponse", command |-> command,
              result |-> NoMatch, rest |-> rest]
        ELSE [err |-> "none", command |-> command, result |-> result, rest |-> rest]

\* _recv raising UnexpectedResponse where the line does not match its rule
RecvUnmatched(buf, expected_commands) ==
    LET line == ReadLine(buf)
        command == GetCommand(line)
        result == Match(command, line)
        rest == Drop(buf, Len(line))
    IN  IF command \notin expected_commands \/ ~result.matched
        THEN [err |-> "UnexpectedResponse", command |-> command,
              result |-> NoMatch, rest |-> rest]
        ELSE [err |-> "none", command |-> command, result |-> result, rest |-> rest]

\* _recv on a readable buffer: the line read is consumed whatever follows
Recv(buf, expected_commands) ==
    LET line == ReadLine(buf)
        command == GetCommand(line)
        result == Match(command, line)
        rest == Drop(buf, Len(line))
    IN  IF command \notin expected_commands
        THEN [err |-> "UnexpectedResponse", command |-> command,
              result |-> NoMatch, rest |-> rest]
        ELSE IF ~result.matched
        THEN [err |-> "UnknownResponse", command |-> command,
              result |-> NoMatch, rest |-> rest]
        ELSE [err |-> "none", command |-> command, result |-> result, rest |-> rest]

\* the stream position is the start of a frame the broker sent
InSync == Len(stream) \in ends

\* stream and its frame starts after the reader took all but rest
Consume(rest) ==
    /\ stream' = rest
    /\ ends' = {e \in ends : e <= Len(rest)}

\* -------------------------------------------------------------- connect
\* 'CONNECT %s' % json.dumps(config); the options document is not inspected
\* by any operation of the model and is written as an empty object
ConnectCommand == VerbCONNECT \o SP \o <<"{", "}">>

\* connect(): _build_socket, _connect_socket, _build_file_socket, then the
\* CONNECT of _send_connect_msg; its _recv(INFO) is ConnectRecv
Connect ==
    /\ pc = "idle"
    /\ nconnects < MaxConnects
    /\ nconnects' = nconnects + 1
    /\ NoWait
    /\ UNCHANGED <<reg_vars, now>>
    /\ \/ \* socket.connect raises socket.error
          /\ socket' = "fresh"
          /\ sent' = <<>>
          /\ ev' = Event("connect", "SocketError", "-", "-")
          /\ UNCHANGED <<socket_file, alive, pc, broker_subs, pubs, pings,
                         in_vars>>
       \/ \E o \in SendAllOn("conn", TRUE, <<ConnectCommand>>) :
            /\ socket' = "conn"
            /\ socket_file' = "open"
            /\ LinkLost!2 /\ LinkLost!3 /\ LinkLost!4 /\ LinkLost!5
            /\ LinkLost!6 /\ LinkLost!7 /\ LinkLost!8 /\ LinkLost!9
            /\ alive' = o.alive
            /\ sent' = Wire(<<ConnectCommand>>, o.n)
            /\ pc' = IF o.err = "none" THEN "connect" ELSE "idle"
            /\ ev' = Event("connect", o.err, "-", "-")

\* the _recv(INFO) of _send_connect_msg
ConnectRecv ==
    /\ pc = "connect"
    /\ pc' = "idle"
    /\ UNCHANGED <<conn_vars, reg_vars, wait_vars, now, sent>>
    /\ \/ \* readline raises socket.error
          /\ LinkLost
          /\ ev' = Event("connect", "SocketError", "-", "-")
       \/ /\ alive
          /\ stream # <<>>
          /\ LET r == Recv(stream, {"INFO"})
             IN  /\ Consume(r.rest)
                 /\ ev' = Event("connect", r.err, r.command, "-")
          /\ UNCHANGED <<alive, broker_subs, pubs, pings, inflight, nframes,
                         stray>>

\* the caller has called connect(): every other operation follows it
Opened == socket # "none"

\* ----------------------------------------------------------------- ping
\* ping() up to its _recv(PONG)
Ping ==
    /\ pc = "idle"
    /\ Opened
    /\ pings < MaxPings
    /\ \E o \in SendAll(<<VerbPING>>) :
         /\ sent' = Wire(<<VerbPING>>, o.n)
         /\ ev' = Event("ping", o.err, "-", "-")
         /\ IF o.err = "none"
            THEN /\ pings' = pings + 1
                 /\ pc' = "ping"
                 /\ UNCHANGED <<alive, broker_subs, pubs, in_vars>>
            ELSE /\ SendFailed(o)
                 /\ UNCHANGED pc
    /\ NoWait
    /\ UNCHANGED <<conn_vars, reg_vars, now>>

\* the _recv(PONG) of ping: one line is read, whatever it is
PingRecv ==
    /\ pc = "ping"
    /\ pc' = "idle"
    /\ UNCHANGED <<conn_vars, reg_vars, wait_vars, now, sent>>
    /\ \/ \* readline raises socket.error
          /\ LinkLost
          /\ ev' = Event("ping", "SocketError", "-", "-")
       \/ /\ alive
          /\ stream # <<>>
          /\ LET r == Recv(stream, {"PONG"})
             IN  /\ Consume(r.rest)
                 /\ ev' = Event("ping", r.err, r.command, "-")
                 /\ inflight' = IF Match("MSG", ReadLine(stream)).matched
                                 THEN Tail(inflight) ELSE inflight
          /\ UNCHANGED <<alive, broker_subs, pubs, pings, nframes, stray>>

\* ---------------------------------------------------- close / reconnect
\* close(): `pass`
Close ==
    /\ pc = "idle"
    /\ sent' = <<>>
    /\ ev' = Event("close", "none", "-", "-")
    /\ NoWait
    /\ UNCHANGED <<conn_vars, reg_vars, link_vars, pc, now>>

\* reconnect() sending a SUB of a registered subscription after CONNECT
ReconnectCommandsResub ==
    IF subscriptions = <<>> THEN <<ConnectCommand>>
    ELSE LET s == subscriptions[CHOOSE k \in DOMAIN subscriptions : TRUE]
         IN  <<ConnectCommand,
               VerbSUB \o SP \o s.subject \o SP \o s.queue \o SP \o FormatInt(s.sid)>>

\* the commands reconnect() sends: those of connect()
ReconnectCommands == <<ConnectCommand>>

\* reconnect(): close(), which does nothing, then connect() up to its
\* _recv(INFO), which is ConnectRecv.  When socket.connect raises,
\* _socket_file is still the file of the transport before the call.
Reconnect ==
    /\ pc = "idle"
    /\ nconnects < MaxConnects + MaxReconnects
    /\ nconnects' = nconnects + 1
    /\ NoWait
    /\ UNCHANGED <<reg_vars, now>>
    /\ \/ \* socket.connect raises socket.error
          /\ socket' = "fresh"
          /\ sent' = <<>>
          /\ ev' = Event("reconnect", "SocketError", "-", "-")
          /\ UNCHANGED <<socket_file, pc, link_vars>>
       \/ \E o \in SendAllOn("conn", TRUE, ReconnectCommands) :
            /\ socket' = "conn"
            /\ socket_file' = "open"
            /\ LinkLost!2 /\ LinkLost!3 /\ LinkLost!4 /\ LinkLost!5
            /\ LinkLost!6 /\ LinkLost!7 /\ LinkLost!8 /\ LinkLost!9
            /\ alive' = o.alive
            /\ sent' = Wire(ReconnectCommands, o.n)
            /\ pc' = IF o.err = "none" THEN "connect" ELSE "idle"
            /\ ev' = Event("reconnect", o.err, "-", "-")

\* ---------------------------------------------- subscribe / unsubscribe
Subscription(sid, subject, queue, callback) ==
    [sid |-> sid, subject |-> subject, queue |-> queue, callback |-> callback]

\* 'SUB %s %s %d' % (s.subject, s.queue, s.sid)
SubCommand(s) ==
    VerbSUB \o SP \o s.subject \o SP \o s.queue \o SP \o FormatInt(s.sid)

\* the value of _next_sid after subscribe's _send ended with err
NextSidAfter(sid, err) == IF err = "none" THEN sid + 1 ELSE sid

Subscribe(subject, callback) ==
    /\ pc = "idle"
    /\ Opened
    /\ next_sid <= MaxSid
    /\ Len(assigned) < MaxCalls
    /\ LET s == Subscription(next_sid, subject, <<>>, callback)
       IN  \E o \in SendAll(<<SubCommand(s)>>) :
             /\ subscriptions' = (s.sid :> s) @@ subscriptions
             /\ assigned' = Append(assigned, s.sid)
             /\ sent' = Wire(<<SubCommand(s)>>, o.n)
             /\ next_sid' = NextSidAfter(next_sid, o.err)
             /\ IF o.err = "none"
                THEN /\ broker_subs' = broker_subs \cup {s.sid}
                     /\ UNCHANGED <<alive, pubs, pings, in_vars>>
                ELSE SendFailed(o)
             /\ ev' = Event("subscribe", o.err, "-", "-")
    /\ NoWait
    /\ UNCHANGED <<conn_vars, pc, now>>

\* 'UNSUB %d' % subscription.sid
UnsubCommand(sid) == VerbUNSUB \o SP \o FormatInt(sid)

\* _subscriptions.pop(sid, None): a missing key is passed over
PopErrorIgnored(sid) == "none"

\* the error of _subscriptions.pop(sid)
PopError(sid) == IF sid \in DOMAIN subscriptions THEN "none" ELSE "KeyError"

\* unsubscribe popping the registry entry before it sends UNSUB
UnsubscribePopFirst(sid) ==
    /\ pc = "idle"
    /\ Opened
    /\ \E o \in SendAll(<<UnsubCommand(sid)>>) :
         /\ sent' = Wire(<<UnsubCommand(sid)>>, o.n)
         /\ IF o.err = "none"
            THEN /\ subscriptions' =
                      [k \in DOMAIN subscriptions \ {sid} |-> subscriptions[k]]
                 /\ ev' = Event("unsubscribe", PopError(sid), "-", "-")
                 /\ broker_subs' = broker_subs \ {sid}
                 /\ UNCHANGED <<alive, pubs, pings, in_vars>>
            ELSE /\ subscriptions' =
                      [k \in DOMAIN subscriptions \ {sid} |-> subscriptions[k]]
                 /\ ev' = Event("unsubscribe", o.err, "-", "-")
                 /\ SendFailed(o)
    /\ NoWait
    /\ UNCHANGED <<conn_vars, next_sid, assigned, pc, now>>

Unsubscribe(sid) ==
    /\ pc = "idle"
    /\ Opened
    /\ \E o \in SendAll(<<UnsubCommand(sid)>>) :
         /\ sent' = Wire(<<UnsubCommand(sid)>>, o.n)
         /\ IF o.err = "none"
            THEN /\ subscriptions' =
                      [k \in DOMAIN subscriptions \ {sid} |-> subscriptions[k]]
                 /\ ev' = Event("unsubscribe", PopError(sid), "-", "-")
                 /\ broker_subs' = broker_subs \ {sid}
                 /\ UNCHANGED <<alive, pubs, pings, in_vars>>
            ELSE /\ UNCHANGED subscriptions
                 /\ ev' = Event("unsubscribe", o.err, "-", "-")
                 /\ SendFailed(o)
    /\ NoWait
    /\ UNCHANGED <<conn_vars, next_sid, assigned, pc, now>>

\* -------------------------------------------------------------- publish
\* the PUB header written without its reply subject
PubCommandNoReply(subject, msg, reply) ==
    VerbPUB \o SP \o subject \o SP \o FormatInt(Len(msg))

\* 'PUB %s %d' % (subject, len(msg)) or 'PUB %s %s %d' % (subject, reply, len(msg))
PubCommand(subject, msg, reply) ==
    IF reply = None
    THEN VerbPUB \o SP \o subject \o SP \o FormatInt(Len(msg))
    ELSE VerbPUB \o SP \o subject \o SP \o reply \o SP \o FormatInt(Len(msg))

Publish(subject, msg, reply) ==
    /\ pc = "idle"
    /\ Opened
    /\ Len(pubs) < MaxPubs
    /\ LET cmds == <<PubCommand(subject, msg, reply), msg>>
       IN  \E o \in SendAll(cmds) :
             /\ sent' = Wire(cmds, o.n)
             /\ IF o.err = "none"
                THEN /\ pubs' = Append(pubs, [header |-> cmds[1] \o CRLF,
                                              body |-> cmds[2] \o CRLF,
                                              msg |-> msg])
                     /\ UNCHANGED <<alive, broker_subs, pings, in_vars>>
                ELSE SendFailed(o)
             /\ ev' = Event("publish", o.err, "-", "-")
    /\ NoWait
    /\ UNCHANGED <<conn_vars, reg_vars, pc, now>>

\* ----------------------------------------------------------------- wait
\* the values a call of time.time() may return after it returned t
Clock(t) == {u \in {t, t + 1} : u <= MaxClock}

Message(sid, size, data, reply) ==
    [sid |-> sid, size |-> size, data |-> data, reply |-> reply]

\* the payload _handle_msg takes from the bytes that follow the header line
PayloadOf(buf) == Strip(ReadLine(buf))

\* Subscription.handle_msg: the callback is called with msg and what it
\* returns (ret) is handed back
handle_msg(s, msg, ret) == ret

\* _handle_msg on a matched MSG line, buf being the bytes after that line and
\* ret what the callback returns if it is called
HandleMsg(result, buf, ret) ==
    IF ~IsNumber(result.sid)
    THEN [err |-> "ValueError", called |-> FALSE, msg |-> None, ret |-> "-",
          rest |-> buf]
    ELSE LET sid == ParseInt(result.sid)
             msg == Message(sid, ParseInt(result.size), PayloadOf(buf),
                            IF result.reply # None THEN Strip(result.reply)
                            ELSE None)
             rest == Drop(buf, Len(ReadLine(buf)))
         IN  IF sid \in DOMAIN subscriptions
             THEN [err |-> "none", called |-> TRUE, msg |-> msg,
                   ret |-> handle_msg(subscriptions[sid], msg, ret), rest |-> rest]
             ELSE [err |-> "AttributeError", called |-> FALSE, msg |-> msg,
                   ret |-> "-", rest |-> rest]

\* `self._handle_msg(result) is False`
StopRequested(ret) == ret = "False"

\* `count and count >= total`
CountReached(c, t) == c # 0 /\ c >= t

\* `duration and time.time() - time.time() - start`: whether the loop
\* breaks, and the last clock value read (no clock is read when duration is
\* falsy)
DurationCheck ==
    IF duration = 0 THEN {[brk |-> FALSE, now |-> now]}
    ELSE {[brk |-> (t[1] - t[2] - start) # 0, now |-> t[2]] :
            t \in {u \in Clock(now) \X (now..MaxClock) : u[2] \in Clock(u[1])}}

Expected == {"MSG", "PING", "OK"}

\* wait(duration, count) up to its first _recv
Wait(d, c) ==
    /\ pc = "idle"
    /\ Opened
    /\ pc' = "wait"
    /\ duration' = d
    /\ count' = c
    /\ start' \in Clock(now)
    /\ now' = start'
    /\ total' = 0
    /\ delivered' = <<>>
    /\ sent' = <<>>
    /\ ev' = Event("wait", "none", "-", "-")
    /\ UNCHANGED <<conn_vars, alive, reg_vars, broker_subs, pubs, pings,
                   in_vars>>

\* wait catching the socket error of its read and going round the loop again
WaitRaiseSwallowed ==
    /\ pc = "wait"
    /\ socket_file = "open"
    /\ alive
    /\ ev' = Event("wait", "SocketError", "-", "-")
    /\ LinkLost
    /\ UNCHANGED <<conn_vars, reg_vars, wait_vars, now, sent, pc>>

\* the readline of _recv raises: no file yet, or a socket error
WaitRaise ==
    /\ pc = "wait"
    /\ pc' = "idle"
    /\ IF socket_file = "none"
       THEN /\ ev' = Event("wait", "AttributeError", "-", "-")
            /\ UNCHANGED link_vars
       ELSE /\ ev' = Event("wait", "SocketError", "-", "-")
            /\ LinkLost
    /\ UNCHANGED <<conn_vars, reg_vars, wait_vars, now, sent>>

Readable == socket_file = "open" /\ alive /\ stream # <<>>

\* _recv raises UnexpectedResponse or UnknownResponse
WaitBadFrame ==
    /\ pc = "wait"
    /\ Readable
    /\ LET r == Recv(stream, Expected)
       IN  /\ r.err # "none"
           /\ Consume(r.rest)
           /\ ev' = Event("wait", r.err, r.command, "-")
    /\ pc' = "idle"
    /\ UNCHANGED <<conn_vars, alive, reg_vars, wait_vars, now, broker_subs,
                   pubs, pings, inflight, nframes, stray, sent>>

\* the end of one pass of the loop body that did not break before line 159
LoopTail(frame) ==
    \E c \in DurationCheck :
      /\ now' = c.now
      /\ pc' = IF c.brk THEN "idle" ELSE "wait"
      /\ ev' = Event("wait", "none", frame, IF c.brk THEN "duration" ELSE "-")

\* a MSG line: total += 1, _handle_msg, the two break tests
WaitMsg ==
    /\ pc = "wait"
    /\ Readable
    /\ \E ret \in CallbackResults :
       LET r == Recv(stream, Expected)
           h == HandleMsg(r.result, r.rest, ret)
       IN  /\ r.err = "none"
           /\ r.command = "MSG"
           /\ total' = total + 1
           /\ \/ \* the readline of the payload raises socket.error
                 /\ IsNumber(r.result.sid)
                 /\ LinkLost
                 /\ pc' = "idle"
                 /\ ev' = Event("wait", "SocketError", "MSG", "-")
                 /\ UNCHANGED <<delivered, now>>
              \/ /\ h.err # "none"
                 /\ Consume(h.rest)
                 /\ inflight' = Tail(inflight)
                 /\ pc' = "idle"
                 /\ ev' = Event("wait", h.err, "MSG", "-")
                 /\ UNCHANGED <<alive, delivered, now, nframes, stray, pubs, pings,
                                broker_subs>>
              \/ /\ h.err = "none"
                 /\ Consume(h.rest)
                 /\ inflight' = Tail(inflight)
                 /\ UNCHANGED <<nframes, stray, pubs, pings, broker_subs>>
                 /\ delivered' = Append(delivered, [msg |-> h.msg,
                                                    published |-> Head(inflight),
                                                    ret |-> h.ret])
                 /\ UNCHANGED alive
                 /\ IF StopRequested(h.ret)
                    THEN /\ pc' = "idle"
                         /\ ev' = Event("wait", "none", "MSG", "callback")
                         /\ UNCHANGED now
                    ELSE IF CountReached(count, total')
                    THEN /\ pc' = "idle"
                         /\ ev' = Event("wait", "none", "MSG", "count")
                         /\ UNCHANGED now
                    ELSE LoopTail("MSG")
    /\ UNCHANGED <<conn_vars, reg_vars, count, duration, start, sent>>

\* _handle_ping answering in kind, with a PING
PingReplyPing == <<VerbPING>>

\* the commands _handle_ping sends
PingReply == <<VerbPONG>>

\* a PING line: _handle_ping, then the duration test
WaitPing ==
    /\ pc = "wait"
    /\ Readable
    /\ LET r == Recv(stream, Expected)
       IN  /\ r.err = "none"
           /\ r.command = "PING"
           /\ \E o \in SendAll(PingReply) :
                /\ sent' = sent \o Wire(PingReply, o.n)
                /\ IF o.err = "none"
                   THEN /\ Consume(r.rest)
                        /\ UNCHANGED <<alive, broker_subs, pubs, pings, inflight,
                                       nframes, stray>>
                        /\ LoopTail("PING")
                   ELSE /\ LinkLost
                        /\ pc' = "idle"
                        /\ ev' = Event("wait", o.err, "PING", "-")
                        /\ UNCHANGED now
    /\ UNCHANGED <<conn_vars, reg_vars, count, duration, start, total,
                   delivered>>

\* a line that is neither MSG nor PING (a +OK): only the duration test
WaitOk ==
    /\ pc = "wait"
    /\ Readable
    /\ LET r == Recv(stream, Expected)
       IN  /\ r.err = "none"
           /\ r.command \notin {"MSG", "PING"}
           /\ Consume(r.rest)
           /\ LoopTail(r.command)
    /\ UNCHANGED <<conn_vars, alive, reg_vars, count, duration, start, total,
                   delivered, broker_subs, pubs, pings, inflight, nframes, stray,
                   sent>>

\* --------------------------------------------------------------- broker
\* the broker sends while the link is up, and nothing after a frame that
\* broke the protocol
BrokerCanSend == socket_file = "open" /\ alive /\ nframes < MaxFrames /\ ~stray

BrokerAppend(frame) ==
    /\ stream' = stream \o frame
    /\ ends' = {e + Len(frame) : e \in {x \in ends : x <= Len(stream)}} \cup {0}
    /\ nframes' = nframes + 1

\* the INFO that opens every transport
BrokerInfo ==
    /\ BrokerCanSend
    /\ nframes = 0
    /\ BrokerAppend(InfoFrame)
    /\ UNCHANGED <<conn_vars, alive, reg_vars, pc, wait_vars, now, broker_subs,
                   pubs, pings, inflight, stray, sent, ev>>

\* a PING or a +OK, once INFO is sent
BrokerKeepalive(frame) ==
    /\ BrokerCanSend
    /\ nframes > 0
    /\ BrokerAppend(frame)
    /\ UNCHANGED <<conn_vars, alive, reg_vars, pc, wait_vars, now, broker_subs,
                   pubs, pings, inflight, stray, sent, ev>>

\* a frame that breaks the protocol
BrokerStray(frame) ==
    /\ BrokerCanSend
    /\ BrokerAppend(frame)
    /\ stray' = TRUE
    /\ UNCHANGED <<conn_vars, alive, reg_vars, pc, wait_vars, now, broker_subs,
                   pubs, pings, inflight, sent, ev>>

\* the broker routes the oldest PUB it holds to one subscription: it takes
\* <size> bytes of payload after the PUB line and frames them as a MSG
BrokerDeliver(sid) ==
    /\ BrokerCanSend
    /\ nframes > 0
    /\ pubs # <<>>
    /\ sid \in broker_subs
    /\ LET h == Head(pubs).header
           f == Fields(SubSeq(h, 1, Len(h) - 2))
           size == f[Len(f)]
           payload == SubSeq(Head(pubs).body, 1, ParseInt(size))
       IN  BrokerAppend(MsgFrame(f[2], FormatInt(sid),
                                 IF Len(f) = 4 THEN f[3] ELSE None,
                                 size, payload))
    /\ inflight' = Append(inflight, Head(pubs).msg)
    /\ pubs' = Tail(pubs)
    /\ UNCHANGED <<conn_vars, alive, reg_vars, pc, wait_vars, now, broker_subs,
                   pings, stray, sent, ev>>

\* a PUB nobody is subscribed to is dropped
BrokerDrop ==
    /\ pubs # <<>>
    /\ broker_subs = {}
    /\ pubs' = <<>>
    /\ UNCHANGED <<conn_vars, alive, reg_vars, pc, wait_vars, now, broker_subs,
                   pings, in_vars, sent, ev>>

\* the PONG that answers a PING of the caller
BrokerPong ==
    /\ BrokerCanSend
    /\ nframes > 0
    /\ pings > 0
    /\ BrokerAppend(PongFrame)
    /\ pings' = pings - 1
    /\ UNCHANGED <<conn_vars, alive, reg_vars, pc, wait_vars, now, broker_subs,
                   pubs, inflight, stray, sent, ev>>

\* an ill-formed INFO in place of the INFO that opens the transport
BrokerBadInfo ==
    /\ nframes = 0
    /\ BrokerStray(BadInfoFrame)

\* ------------------------------------------------------- specification
\* the (duration, count) arguments wait is called with, 0 for None
WaitArgs == {<<0, 0>>, <<0, 1>>, <<0, 2>>, <<1, 0>>}

Next ==
    \/ Connect
    \/ ConnectRecv
    \/ \E subject \in Subjects, callback \in Callbacks :
         Subscribe(subject, callback)
    \/ \E sid \in 1..MaxSid : Unsubscribe(sid)
    \/ \E subject \in Subjects, msg \in Payloads, reply \in Replies :
         Publish(subject, msg, reply)
    \/ \E a \in WaitArgs : Wait(a[1], a[2])
    \/ WaitRaise
    \/ WaitBadFrame
    \/ WaitMsg
    \/ WaitPing
    \/ WaitOk
    \/ BrokerInfo
    \/ \E frame \in KeepaliveFrames : BrokerKeepalive(frame)
    \/ \E frame \in StrayFrames : BrokerStray(frame)
    \/ \E sid \in 1..MaxSid : BrokerDeliver(sid)
    \/ BrokerDrop

Spec == Init /\ [][Next]_vars

\* the session from connect to reconnect: every operation of the caller,
\* on payloads of two sizes and with wait() called without budgets
SessionPayloads == {<<"a">>, <<"a", "b">>}
SessionReplies == {None, <<"r">>}

NextSession ==
    \/ Connect
    \/ ConnectRecv
    \/ Reconnect
    \/ Close
    \/ Ping
    \/ PingRecv
    \/ \E subject \in Subjects, callback \in Callbacks :
         Subscribe(subject, callback)
    \/ \E sid \in 1..MaxSid : Unsubscribe(sid)
    \/ \E subject \in Subjects, msg \in SessionPayloads, reply \in SessionReplies :
         Publish(subject, msg, reply)
    \/ Wait(0, 0)
    \/ WaitRaise
    \/ WaitBadFrame
    \/ WaitMsg
    \/ WaitPing
    \/ WaitOk
    \/ BrokerInfo
    \/ BrokerBadInfo
    \/ \E frame \in KeepaliveFrames : BrokerKeepalive(frame)
    \/ \E frame \in StrayFrames : BrokerStray(frame)
    \/ \E sid \in 1..MaxSid : BrokerDeliver(sid)
    \/ BrokerDrop
    \/ BrokerPong

SpecSession == Init /\ [][NextSession]_vars

\* --------------------------------------------------------------- claims
Last(q) == q[Len(q)]

\* a step of the caller inside wait that read a line from a stream whose
\* first line is `line` (a failed read leaves alive' false)
WaitReads(line) ==
    /\ pc = "wait"
    /\ Readable
    /\ ReadLine(stream) = line
    /\ alive'
    /\ Len(stream') < Len(stream)

\* C1: the ids subscribe assigns, failed calls included, are strictly
\* increasing (hence pairwise distinct) in call order.
C1_IdsStrictlyIncreasing ==
    \A i, j \in 1..Len(assigned) : i < j => assigned[i] < assigned[j]

\* C2: every registered id is strictly smaller than the next-id counter, so
\* subscribe never assigns an id that is a key of the registry.
C2_RegisteredBelowNext ==
    \A sid \in DOMAIN subscriptions : sid < next_sid

\* C3: a wait(count=n), n > 0, with no duration, that returned normally
\* after callbacks that all returned True has dispatched exactly n messages.
C3_CountExact ==
    ( /\ ev.op = "wait" /\ ev.err = "none" /\ pc = "idle"
      /\ count > 0 /\ duration = 0
      /\ \A i \in 1..Len(delivered) : delivered[i].ret = "True" )
    => (Len(delivered) = count /\ total = count)

\* C4: in a wait without duration, a step that reads a PING line and whose
\* PONG send does not raise sends exactly one PONG, calls no callback,
\* leaves the registry and the message count alone and stays in the loop;
\* the only other outcome is the SocketError of that send, nothing sent.
C4_PingAnswered ==
    [][ ((WaitReads(PingFrame) \/ WaitPing) /\ duration = 0)
        => /\ delivered' = delivered
           /\ subscriptions' = subscriptions
           /\ next_sid' = next_sid
           /\ total' = total
           /\ ev'.frame = "PING"
           /\ IF ev'.err = "none"
              THEN sent' = Append(sent, PongFrame) /\ pc' = "wait"
              ELSE ev'.err = "SocketError" /\ sent' = sent /\ pc' = "idle" ]_vars

C4_Witness ==
    /\ pc = "wait"
    /\ duration = 0
    /\ ev = Event("wait", "none", "PING", "-")
    /\ sent = <<PongFrame>>
    /\ stream # <<>>

\* C5: unsubscribe of a sid that is not registered raises (KeyError from the
\* registry once UNSUB is sent, SocketError when that send fails) and
\* leaves the registry and the next-id counter unchanged.
C5_UnsubscribeUnknown ==
    [][ \A sid \in 1..MaxSid :
          (Unsubscribe(sid) /\ sid \notin DOMAIN subscriptions)
          => /\ subscriptions' = subscriptions
             /\ next_sid' = next_sid
             /\ ev'.op = "unsubscribe"
             /\ IF sent' = <<UnsubCommand(sid) \o CRLF>>
                THEN ev'.err = "KeyError"
                ELSE ev'.err = "SocketError" /\ sent' = <<>> ]_vars

C5_Witness ==
    /\ ev = Event("unsubscribe", "KeyError", "-", "-")
    /\ subscriptions # <<>>
    /\ sent = <<UnsubCommand(2) \o CRLF>>

\* C6: every Message wait hands to a callback carries the payload that was
\* published, byte for byte, and the size len(payload).
C6_RoundTrip ==
    \A i \in 1..Len(delivered) :
      /\ delivered[i].msg.data = delivered[i].published
      /\ delivered[i].msg.size = Len(delivered[i].published)

\* C7: every Message's payload is as long as its declared size, and while
\* the broker sent only well-formed frames the stream position is the start
\* of a frame.
C7_ExactPayload ==
    /\ \A i \in 1..Len(delivered) :
         Len(delivered[i].msg.data) = delivered[i].msg.size
    /\ ~stray => InSync

\* C8: a step of wait that reads a line whose verb is MSG and that does not
\* match the MSG rule raises UnknownResponse (MalformedFrame), ends the loop,
\* calls no callback, sends nothing and reads nothing after that line.
C8_MalformedMsg ==
    [][ ( /\ WaitReads(ReadLine(stream))
          /\ GetCommand(ReadLine(stream)) = "MSG"
          /\ ~Match("MSG", ReadLine(stream)).matched )
        => /\ ev' = Event("wait", "UnknownResponse", "MSG", "-")
           /\ pc' = "idle"
           /\ delivered' = delivered
           /\ total' = total
           /\ sent' = sent
           /\ stream' = Drop(stream, Len(ReadLine(stream))) ]_vars

C8_Witness ==
    /\ ev = Event("wait", "UnknownResponse", "MSG", "-")
    /\ pc = "idle"
    /\ stream = <<"a">> \o CRLF

\* C9: a step of wait that reads a line whose verb is not MSG, PING or +OK
\* raises UnexpectedResponse (UnexpectedFrame), ends the loop, calls no
\* callback and sends nothing.
C9_UnexpectedFrame ==
    [][ ( /\ WaitReads(ReadLine(stream))
          /\ GetCommand(ReadLine(stream)) \notin Expected )
        => /\ ev' = Event("wait", "UnexpectedResponse",
                          GetCommand(ReadLine(stream)), "-")
           /\ pc' = "idle"
           /\ delivered' = delivered
           /\ total' = total
           /\ sent' = sent ]_vars

C9_Witness ==
    /\ ev = Event("wait", "UnexpectedResponse", "PONG", "-")
    /\ pc = "idle"
    /\ delivered # <<>>

\* C10: once a callback returned a falsy result (False or None) the loop
\* has ended: wait is not running and that callback was the last one called.
C10_FalsyStops ==
    \A i \in 1..Len(delivered) :
      delivered[i].ret \in {"False", "None"}
      => (i = Len(delivered) /\ pc = "idle")

\* C11: wait(duration=d) with d > 0 and no count ends on its duration
\* condition only once d time units have passed since the loop started:
\* whenever the loop ended for that reason, the clock read last is at least
\* start + d.
C11_DurationElapsed ==
    (ev.op = "wait" /\ ev.why = "duration" /\ duration > 0 /\ count = 0)
        => now - start >= duration

\* C12: connect() sends exactly one CONNECT frame once the socket is
\* connected and nothing when the socket cannot connect (SocketError); its
\* read of the first inbound line sends nothing more and ends the call:
\* normally when the line is a well-formed INFO, with UnexpectedResponse
\* when the line is of another type, with UnknownResponse when it is an
\* ill-formed INFO, with SocketError when the read fails.  No step of it
\* makes a second attempt.
C12_ConnectHandshake ==
    [][ /\ Connect =>
           /\ nconnects' = nconnects + 1
           /\ IF ev'.err = "none"
              THEN /\ sent' = <<VerbCONNECT \o SP \o <<"{", "}">> \o CRLF>>
                   /\ pc' = "connect"
              ELSE /\ ev'.err = "SocketError"
                   /\ sent' = <<>>
                   /\ pc' = "idle"
        /\ ConnectRecv =>
           /\ sent' = sent
           /\ nconnects' = nconnects
           /\ pc' = "idle"
           /\ socket' = socket
           /\ IF ~alive'
              THEN ev'.err = "SocketError"
              ELSE LET line == ReadLine(stream)
                   IN  /\ stream' = Drop(stream, Len(line))
                       /\ ev'.err =
                            IF GetCommand(line) # "INFO"
                            THEN "UnexpectedResponse"
                            ELSE IF ~Match("INFO", line).matched
                            THEN "UnknownResponse"
                            ELSE "none"
      ]_vars

\* connect() returned normally: CONNECT was sent and the INFO was read
C12_Witness ==
    /\ ev = Event("connect", "none", "INFO", "-")
    /\ pc = "idle"
    /\ nconnects = 1
    /\ sent = <<ConnectCommand \o CRLF>>
    /\ stream = <<>>

\* C13: ping() returns normally whenever the broker answers its PING with
\* a PONG, whatever the broker sent ahead of it: a ping() that read a line
\* from a link that stayed up, on which the broker kept to the protocol and
\* has answered every PING of the caller, ended without error.
C13_PingReturns ==
    (ev.op = "ping" /\ pc = "idle" /\ ev.frame # "-" /\ alive /\ ~stray
        /\ pings = 0)
        => ev.err = "none"

\* C14: after close() returns the transport that was open is released: the
\* connection is left with no open file on a link that is still up.
C14_CloseReleases ==
    ev.op = "close" => ~(socket_file = "open" /\ alive)

\* C15: reconnect() sends nothing but the CONNECT handshake, and no SUB for
\* a registered subscription; the registry and the next-id counter are the
\* same after every step of it as before, while the broker holds no
\* subscription on the new transport.
C15_ReconnectNoResubscribe ==
    [][ /\ Reconnect =>
           /\ subscriptions' = subscriptions
           /\ next_sid' = next_sid
           /\ sent' \in {<<>>, <<VerbCONNECT \o SP \o <<"{", "}">> \o CRLF>>}
           /\ (socket' = "conn" => broker_subs' = {})
        /\ (ConnectRecv /\ ev.op = "reconnect") =>
           /\ subscriptions' = subscriptions
           /\ next_sid' = next_sid
           /\ sent' = sent
           /\ broker_subs' = broker_subs
      ]_vars

\* reconnect() with a registered subscription has sent its CONNECT
C15_Witness ==
    /\ ev = Event("reconnect", "none", "-", "-")
    /\ pc = "connect"
    /\ 1 \in DOMAIN subscriptions
    /\ next_sid = 2
    /\ sent = <<ConnectCommand \o CRLF>>
    /\ broker_subs = {}

\* C16: a successful subscribe(subject, callback) sends exactly the frame
\* `SUB <subject>  <sid>` (empty queue) with the sid of the handle, adds
\* exactly one entry to the registry, keyed by that sid, leaves every other
\* entry as it was, increases the next-id counter by one and reads nothing.
C16_SubscribeEffect ==
    [][ \A subject \in Subjects, callback \in Callbacks :
          (Subscribe(subject, callback) /\ ev'.err = "none") =>
            /\ sent' = <<VerbSUB \o SP \o subject \o SP \o SP
                           \o FormatInt(next_sid) \o CRLF>>
            /\ DOMAIN subscriptions' = DOMAIN subscriptions \cup {next_sid}
            /\ Cardinality(DOMAIN subscriptions')
                 = Cardinality(DOMAIN subscriptions) + 1
            /\ subscriptions'[next_sid]
                 = Subscription(next_sid, subject, <<>>, callback)
            /\ \A k \in DOMAIN subscriptions \ {next_sid} :
                 subscriptions'[k] = subscriptions[k]
            /\ next_sid' = next_sid + 1
            /\ stream' = stream
      ]_vars

\* C17: unsubscribe of a registered subscription sends exactly one frame,
\* `UNSUB <sid>` with its id, and removes exactly its entry from the
\* registry, leaving the other entries and the next-id counter unchanged;
\* when the send fails nothing is sent and the subscription stays registered.
C17_UnsubscribeEffect ==
    [][ \A sid \in 1..MaxSid :
          (Unsubscribe(sid) /\ sid \in DOMAIN subscriptions) =>
            /\ next_sid' = next_sid
            /\ stream' = stream \/ ~alive'
            /\ IF ev'.err = "none"
               THEN /\ sent' = <<VerbUNSUB \o SP \o FormatInt(sid) \o CRLF>>
                    /\ DOMAIN subscriptions' = DOMAIN subscriptions \ {sid}
                    /\ \A k \in DOMAIN subscriptions' :
                         subscriptions'[k] = subscriptions[k]
               ELSE /\ ev'.err = "SocketError"
                    /\ sent' = <<>>
                    /\ subscriptions' = subscriptions
      ]_vars

\* sid 1 was unsubscribed while sid 2 stays registered
C17_Witness ==
    /\ ev = Event("unsubscribe", "none", "-", "-")
    /\ DOMAIN subscriptions = {2}
    /\ sent = <<UnsubCommand(1) \o CRLF>>
    /\ next_sid = 3

\* C18: publish(subject, payload, reply) sends two lines in order, the
\* header `PUB <subject> [<reply>] <size>` (the reply present exactly when
\* it is not None, the size that of the payload) and then the payload; it
\* reads nothing and leaves the registry and the next-id counter unchanged.
\* A send that fails ends it with SocketError after the lines sent so far.
C18_PublishEffect ==
    [][ \A subject \in Subjects, msg \in SessionPayloads, reply \in SessionReplies :
          Publish(subject, msg, reply) =>
            LET header == VerbPUB \o SP \o subject
                            \o (IF reply = None THEN <<>> ELSE SP \o reply)
                            \o SP \o FormatInt(Len(msg)) \o CRLF
                lines == <<header, msg \o CRLF>>
            IN  /\ subscriptions' = subscriptions
                /\ next_sid' = next_sid
                /\ pc' = "idle"
                /\ IF ev'.err = "none"
                   THEN /\ sent' = lines
                        /\ stream' = stream
                        /\ Last(pubs').header = header
                   ELSE /\ ev'.err = "SocketError"
                        /\ sent' \in {<<>>, <<header>>}
      ]_vars

\* a publish with a reply subject went out whole
C18_Witness ==
    /\ ev = Event("publish", "none", "-", "-")
    /\ Len(sent) = 2
    /\ sent[1] = PubCommand(<<"f">>, <<"a">>, <<"r">>) \o CRLF
    /\ sent[2] = <<"a">> \o CRLF
    /\ pubs # <<>>

\* C19: a socket failure in a send or a receive of connect, reconnect,
\* ping, subscribe, unsubscribe, publish or wait surfaces as SocketError to
\* the caller of that operation, which stops there: the operation is over
\* (wait's loop included), no callback is invoked for the failed read,
\* nothing is sent after the failure, and no other transport is opened.
C19_SocketErrorSurfaces ==
    [][ /\ (alive /\ ~alive') => (ev'.err = "SocketError" /\ pc' = "idle")
        /\ (ev'.err = "SocketError" /\ <<ev, sent, pc, alive>>' # <<ev, sent, pc, alive>>) =>
             /\ pc' = "idle"
             /\ ev'.op \in {"connect", "reconnect", "ping", "subscribe",
                             "unsubscribe", "publish", "wait"}
             /\ ev'.op = "wait" => (delivered' = delivered /\ sent' = sent)
             /\ ev'.op \notin {"connect", "reconnect"} =>
                  (nconnects' = nconnects /\ socket' = socket
                     /\ socket_file' = socket_file)
             /\ ev'.op = "subscribe" => (sent' = <<>> /\ next_sid' = next_sid)
             /\ ev'.op = "unsubscribe" =>
                  (sent' = <<>> /\ subscriptions' = subscriptions)
             /\ ev'.op = "publish" => (Len(sent') < 2 /\ pubs' \in {pubs, <<>>})
             /\ ev'.op = "ping" => (sent' = <<>> \/ (pc = "ping" /\ sent' = sent))
             /\ ev'.op \in {"connect", "reconnect"} =>
                  (sent' = <<>> \/ (pc = "connect" /\ sent' = sent))
      ]_vars

\* wait ended with SocketError on the read of a payload: the MSG was counted
\* and no callback ran
C19_Witness ==
    /\ ev = Event("wait", "SocketError", "MSG", "-")
    /\ pc = "idle"
    /\ ~alive
    /\ total = 1
    /\ delivered = <<>>
    /\ subscriptions # <<>>

\* C20: wait calls a callback only for a subscription in the registry, with
\* a Message of that subscription's sid, and a well-formed MSG frame whose
\* sid is not registered neither ends wait with an error outside SocketError,
\* UnexpectedResponse and UnknownResponse nor loses the framing of the stream.
C20_UnknownSidHandled ==
    /\ \A i \in 1..Len(delivered) :
         delivered[i].msg.sid \in DOMAIN subscriptions
    /\ (ev.op = "wait" /\ ev.frame = "MSG") =>
         ev.err \in {"none", "SocketError", "UnexpectedResponse",
                     "UnknownResponse"}

====
